---- MODULE Spec2Model ----
(***************************************************************************)
(* Verification model of the scaled sum-of-squares accumulator (lassq) and *)
(* of the Hermitian norm routines (lanhe) of <T>LAPACK.                    *)
(*                                                                         *)
(* Arithmetic is exact.  A real number is a record [n, d, r] standing for  *)
(* (n/d)*sqrt(r) with d > 0 and r a square-free positive integer, which is *)
(* closed under the products, quotients and square roots the routines take;*)
(* NaN is the record with d = 0.  A scalar of type T is a complex number   *)
(* [re, im].                                                               *)
(***************************************************************************)
EXTENDS Integers, Sequences, FiniteSets, TLC

(***************************************************************************)
(* Exact arithmetic with NaN                                               *)
(***************************************************************************)
RECURSIVE GCD(_, _)
GCD(a, b) == IF b = 0 THEN a ELSE GCD(b, a % b)

IAbs(k) == IF k < 0 THEN -k ELSE k

NaN == [n |-> 0, d |-> 0, r |-> 1]

\* (n/d)*sqrt(r) in lowest terms; d > 0, r square-free
Surd(n, d, r) ==
    IF n = 0 THEN [n |-> 0, d |-> 1, r |-> 1]
    ELSE LET g == GCD(IAbs(n), d)
         IN  [n |-> n \div g, d |-> d \div g, r |-> r]

Q(n, d) == Surd(n, d, 1)

zero == Q(0, 1)
one  == Q(1, 1)
two  == Q(2, 1)

isnan(x) == x.d = 0

Mul(x, y) ==
    IF isnan(x) \/ isnan(y) THEN NaN
    ELSE LET g == GCD(x.r, y.r)
         IN  Surd(x.n * y.n * g, x.d * y.d, (x.r \div g) * (y.r \div g))

\* every divisor the routines use is non-zero (constants, or ymax > 0)
Inv(y) ==
    IF isnan(y) \/ y.n = 0 THEN NaN
    ELSE IF y.n > 0 THEN Surd(y.d, y.n * y.r, y.r)
                    ELSE Surd(-y.d, (-y.n) * y.r, y.r)

Div(x, y) == Mul(x, Inv(y))

\* sums are only ever taken of numbers with the same radicand
Add(x, y) ==
    IF isnan(x) \/ isnan(y) THEN NaN
    ELSE IF x.n = 0 THEN y
    ELSE IF y.n = 0 THEN x
    ELSE IF x.r = y.r THEN Surd(x.n * y.d + y.n * x.d, x.d * y.d, x.r)
    ELSE CHOOSE z \in {} : TRUE

SQUARE(x) == Mul(x, x)

Sign(x) == IF x.n > 0 THEN 1 ELSE IF x.n < 0 THEN -1 ELSE 0

\* x < y for two non-NaN numbers
LtNum(x, y) ==
    IF x.r = y.r THEN x.n * y.d < y.n * x.d
    ELSE IF Sign(x) # Sign(y) THEN Sign(x) < Sign(y)
    ELSE LET a == x.n * x.n * x.r * y.d * y.d
             b == y.n * y.n * y.r * x.d * x.d
         IN  IF Sign(x) > 0 THEN a < b ELSE b < a

\* the IEEE comparisons: false as soon as an operand is NaN
Lt(x, y) == ~isnan(x) /\ ~isnan(y) /\ LtNum(x, y)
Gt(x, y) == Lt(y, x)
Eq(x, y) == ~isnan(x) /\ ~isnan(y) /\ x = y

\* largest s with s*s dividing m (m >= 1), searched from k upwards
RECURSIVE SqPart(_, _)
SqPart(m, k) ==
    IF k * k > m THEN 1
    ELSE IF m % (k * k) = 0 THEN k * SqPart(m \div (k * k), k)
    ELSE SqPart(m, k + 1)

\* square root; NaN of NaN or of a negative number (roots are only ever
\* taken of rational numbers)
sqrt(x) ==
    IF isnan(x) \/ x.n < 0 THEN NaN
    ELSE IF x.r # 1 THEN CHOOSE z \in {} : TRUE
    ELSE IF x.n = 0 THEN zero
    ELSE LET a == SqPart(x.n, 2)
             b == SqPart(x.d, 2)
             p == x.n \div (a * a)
             q == x.d \div (b * b)
         IN  Surd(a, b * q, p * q)

real(z) == z.re

\* blas::abs: |x| of a real number
rabs(x) == IF isnan(x) THEN NaN ELSE [x EXCEPT !.n = IAbs(x.n)]

\* blas::abs: the modulus of a complex number, NaN when a part is NaN
abs(z) ==
    IF isnan(z.re) \/ isnan(z.im) THEN NaN
    ELSE IF z.im.n = 0 THEN rabs(z.re)
    ELSE sqrt(Add(SQUARE(z.re), SQUARE(z.im)))

C(re, im) == [re |-> re, im |-> im]
R(n, d)   == C(Q(n, d), zero)

(***************************************************************************)
(* Scalar type.  real_t is a binary floating-point type with 2 digits and  *)
(* exponents -3 .. 6, for which Blue's constants are                       *)
(*   tsml = 2^ceil((-3-1)/2),   tbig = 2^floor((6-2+1)/2),                 *)
(*   ssml = 2^-floor((-3-2)/2), sbig = 2^-ceil((6+2-1)/2),                 *)
(* and safe_max = 2^min(1-(-3), 6-1).  Only the thresholds come from the  *)
(* type; the arithmetic on the values stays exact.                         *)
(***************************************************************************)
tsml == Q(1, 4)
tbig == Q(4, 1)
ssml == Q(8, 1)
sbig == Q(1, 16)
safe_max == Q(16, 1)

(***************************************************************************)
(* lassq: scaled sum of squares                                            *)
(***************************************************************************)
\* the two magnitude functions the callers pass: blas::abs(x) and
\* blas::abs(real(x))
absFunc(f, v) == IF f = "abs" THEN abs(v) ELSE rabs(real(v))

QuickReturnNaN_sumsqOnly(scl, sumsq) == isnan(sumsq)

\* quick return on a NaN state
QuickReturnNaN(scl, sumsq) == isnan(scl) \/ isnan(sumsq)

\* entry normalization
Normalize_scaleOnly(scl, sumsq) ==
    [scl |-> IF Eq(sumsq, zero) THEN one ELSE scl, sumsq |-> sumsq]

Normalize(scl, sumsq) ==
    LET s1 == IF Eq(sumsq, zero) THEN one ELSE scl
    IN  IF Eq(s1, zero) THEN [scl |-> one, sumsq |-> zero]
        ELSE [scl |-> s1, sumsq |-> sumsq]

Accumulate_medUnsquared(ax, a) ==
    IF Gt(ax, tbig) THEN [a EXCEPT !.abig = Add(@, SQUARE(Mul(ax, sbig)))]
    ELSE IF Lt(ax, tsml)
         THEN IF Eq(a.abig, zero)
              THEN [a EXCEPT !.asml = Add(@, SQUARE(Mul(ax, ssml)))]
              ELSE a
    ELSE [a EXCEPT !.amed = Add(@, ax)]

Accumulate_medSkippedAfterBig(ax, a) ==
    IF Gt(ax, tbig) THEN [a EXCEPT !.abig = Add(@, SQUARE(Mul(ax, sbig)))]
    ELSE IF Lt(ax, tsml)
         THEN IF Eq(a.abig, zero)
              THEN [a EXCEPT !.asml = Add(@, SQUARE(Mul(ax, ssml)))]
              ELSE a
    ELSE IF Eq(a.abig, zero)
         THEN [a EXCEPT !.amed = Add(@, SQUARE(ax))]
         ELSE a

\* one iteration of the classification loop, on the magnitude ax
Accumulate(ax, a) ==
    IF Gt(ax, tbig) THEN [a EXCEPT !.abig = Add(@, SQUARE(Mul(ax, sbig)))]
    ELSE IF Lt(ax, tsml)
         THEN IF Eq(a.abig, zero)
              THEN [a EXCEPT !.asml = Add(@, SQUARE(Mul(ax, ssml)))]
              ELSE a
    ELSE [a EXCEPT !.amed = Add(@, SQUARE(ax))]

\* the loop over x[i], i = 0 .. n-1 (x is 1-based here)
RECURSIVE Loop(_, _, _, _)
Loop(x, f, i, a) ==
    IF i > Len(x) THEN a
    ELSE Loop(x, f, i + 1, Accumulate(absFunc(f, x[i]), a))

FoldState_unscaled(scl, sumsq, a) ==
    IF Gt(sumsq, zero)
    THEN LET ax == Mul(scl, sqrt(sumsq))
         IN  IF Gt(ax, tbig)
             THEN [a EXCEPT !.abig = Add(@, Mul(SQUARE(Mul(scl, sbig)), sumsq))]
             ELSE IF Lt(ax, tsml)
                  THEN IF Eq(a.abig, zero)
                       THEN [a EXCEPT !.asml =
                                Add(@, Mul(SQUARE(Mul(scl, ssml)), sumsq))]
                       ELSE a
             ELSE [a EXCEPT !.amed = Add(@, sumsq)]
    ELSE a

FoldState_dropped(scl, sumsq, a) == a

\* put the existing sum of squares into one of the accumulators
FoldState(scl, sumsq, a) ==
    IF Gt(sumsq, zero)
    THEN LET ax == Mul(scl, sqrt(sumsq))
         IN  IF Gt(ax, tbig)
             THEN [a EXCEPT !.abig = Add(@, Mul(SQUARE(Mul(scl, sbig)), sumsq))]
             ELSE IF Lt(ax, tsml)
                  THEN IF Eq(a.abig, zero)
                       THEN [a EXCEPT !.asml =
                                Add(@, Mul(SQUARE(Mul(scl, ssml)), sumsq))]
                       ELSE a
             ELSE [a EXCEPT !.amed = Add(@, Mul(SQUARE(scl), sumsq))]
    ELSE a

Combine_withoutMin(amed, asml) ==
    LET ymax == IF Gt(asml, amed) THEN asml ELSE amed
    IN  [scl |-> one, sumsq |-> SQUARE(ymax)]

\* amed and asml after their square roots: the pair (1, ymax^2 * (1 +
\* (ymin/ymax)^2))
Combine(amed, asml) ==
    LET ymin == IF Gt(asml, amed) THEN amed ELSE asml
        ymax == IF Gt(asml, amed) THEN asml ELSE amed
    IN  [scl   |-> one,
         sumsq |-> Mul(SQUARE(ymax), Add(one, SQUARE(Div(ymin, ymax))))]

Merge_bigIgnoresNaN(a) ==
    IF Gt(a.abig, zero)
    THEN [scl   |-> Div(one, sbig),
          sumsq |-> IF Gt(a.amed, zero)
                    THEN Add(a.abig, Mul(Mul(a.amed, sbig), sbig))
                    ELSE a.abig]
    ELSE IF Gt(a.asml, zero)
    THEN IF Gt(a.amed, zero) \/ isnan(a.amed)
         THEN Combine(sqrt(a.amed), Div(sqrt(a.asml), ssml))
         ELSE [scl |-> Div(one, ssml), sumsq |-> a.asml]
    ELSE [scl |-> one, sumsq |-> a.amed]

Merge_bigWithoutMedium(a) ==
    IF Gt(a.abig, zero)
    THEN [scl |-> Div(one, sbig), sumsq |-> a.abig]
    ELSE IF Gt(a.asml, zero)
    THEN IF Gt(a.amed, zero) \/ isnan(a.amed)
         THEN Combine(sqrt(a.amed), Div(sqrt(a.asml), ssml))
         ELSE [scl |-> Div(one, ssml), sumsq |-> a.asml]
    ELSE [scl |-> one, sumsq |-> a.amed]

Merge_smallByMultiplier(a) ==
    IF Gt(a.abig, zero)
    THEN [scl   |-> Div(one, sbig),
          sumsq |-> IF Gt(a.amed, zero) \/ isnan(a.amed)
                    THEN Add(a.abig, Mul(Mul(a.amed, sbig), sbig))
                    ELSE a.abig]
    ELSE IF Gt(a.asml, zero)
    THEN IF Gt(a.amed, zero) \/ isnan(a.amed)
         THEN Combine(sqrt(a.amed), Div(sqrt(a.asml), ssml))
         ELSE [scl |-> ssml, sumsq |-> a.asml]
    ELSE [scl |-> one, sumsq |-> a.amed]

\* combine the accumulators into the returned (scl, sumsq)
Merge(a) ==
    IF Gt(a.abig, zero)
    THEN [scl   |-> Div(one, sbig),
          sumsq |-> IF Gt(a.amed, zero) \/ isnan(a.amed)
                    THEN Add(a.abig, Mul(Mul(a.amed, sbig), sbig))
                    ELSE a.abig]
    ELSE IF Gt(a.asml, zero)
    THEN IF Gt(a.amed, zero) \/ isnan(a.amed)
         THEN Combine(sqrt(a.amed), Div(sqrt(a.asml), ssml))
         ELSE [scl |-> Div(one, ssml), sumsq |-> a.asml]
    ELSE [scl |-> one, sumsq |-> a.amed]

\* lassq( x, scl, sumsq, absFunc ): the returned state and the number of
\* elements of x that were read
Returned(s, k) == [scl |-> s.scl, sumsq |-> s.sumsq, nread |-> k]

\* lassq after the NaN quick return, on the normalized state s
Accumulated(x, s, f) ==
    IF Len(x) <= 0 THEN Returned(s, 0)
    ELSE Returned(Merge(FoldState(s.scl, s.sumsq,
                                  Loop(x, f, 1, [asml |-> zero, amed |-> zero,
                                                 abig |-> zero]))),
                  Len(x))

lassq(x, scl, sumsq, f) ==
    IF QuickReturnNaN(scl, sumsq)
    THEN [scl |-> scl, sumsq |-> sumsq, nread |-> 0]
    ELSE Accumulated(x, Normalize(scl, sumsq), f)

(***************************************************************************)
(* lanhe: norms of a Hermitian matrix of which one triangle is referenced. *)
(* A matrix view of order n is a function on (1..n) \X (1..n); the code's  *)
(* 0-based (i, j) is <<i+1, j+1>> here.                                    *)
(***************************************************************************)
RECURSIVE Flatten(_, _, _)
\* the concatenation f(lo) \o f(lo+1) \o ... \o f(hi)
Flatten(f, lo, hi) == IF lo > hi THEN <<>> ELSE f[lo] \o Flatten(f, lo + 1, hi)

\* upper: rows 0..j-1 of column j, then the diagonal
UpperColumn(j) == [k \in 1..j |-> <<k, j>>]

\* lower: the diagonal of column j, then rows j+1..n-1
LowerColumn(j, n) == [k \in 1..(n - j + 1) |-> <<j + k - 1, j>>]

\* the order in which the Max-norm loops visit the referenced triangle
MaxOrder(uplo, n) ==
    IF uplo = "Upper"
    THEN Flatten([j \in 1..n |-> UpperColumn(j)], 1, n)
    ELSE Flatten([j \in 1..n |-> LowerColumn(j, n)], 1, n)

DiagMagnitude_full(a) == abs(a)

\* blas::abs( real(A(j,j)) )
DiagMagnitude(a) == rabs(real(a))

\* the magnitude the Max, One and Inf loops take of the entry at p
Magnitude(A, p) == IF p[1] = p[2] THEN DiagMagnitude(A[p]) ELSE abs(A[p])

MaxVisit_noNaNCheck(temp, st) ==
    IF Gt(temp, st.norm) THEN [st EXCEPT !.norm = temp] ELSE st

\* if (temp > norm) norm = temp; else if (isnan(temp)) return temp;
MaxVisit(temp, st) ==
    IF Gt(temp, st.norm) THEN [st EXCEPT !.norm = temp]
    ELSE IF isnan(temp) THEN [st EXCEPT !.norm = temp, !.returned = TRUE]
    ELSE st

RECURSIVE MaxScan(_, _, _, _)
MaxScan(A, ord, k, st) ==
    IF k > Len(ord) \/ st.returned THEN st
    ELSE MaxScan(A, ord, k + 1,
                 MaxVisit(Magnitude(A, ord[k]),
                          [st EXCEPT !.reads = Append(@, ord[k])]))

OffColumn_mirrored(uplo, j, n) ==
    IF uplo = "Upper" THEN [k \in 1..(j - 1) |-> <<j, k>>]
    ELSE [k \in 1..(n - j) |-> <<j, j + k>>]

\* the strictly triangular part of column j that the Frobenius loops pass
\* to lassq: rows 0..j-1 (upper) or rows j+1..n-1 (lower)
OffColumn(uplo, j, n) ==
    IF uplo = "Upper" THEN [k \in 1..(j - 1) |-> <<k, j>>]
    ELSE [k \in 1..(n - j) |-> <<j + k, j>>]

Entries(A, ps) == [k \in 1..Len(ps) |-> A[ps[k]]]

\* a step of the Frobenius branch with the (scale, ssq) it leaves
Step(name, scale, ssq) == [step |-> name, scale |-> scale, ssq |-> ssq]

\* one lassq call of the Frobenius branch on the entries at ps
FroFold(ps, f, st, out) ==
    [st EXCEPT !.scale = out.scl, !.ssq = out.sumsq,
               !.reads = @ \o SubSeq(ps, 1, out.nread),
               !.events = Append(@, Step(IF f = "abs" THEN "column" ELSE "diag",
                                         out.scl, out.sumsq))]

FroLassq(A, ps, f, st) ==
    FroFold(ps, f, st, lassq(Entries(A, ps), st.scale, st.ssq, f))

RECURSIVE FroColumns(_, _, _, _, _, _)
\* the loop over the off-diagonal columns lo..hi
FroColumns(A, uplo, n, lo, hi, st) ==
    IF lo > hi THEN st
    ELSE FroColumns(A, uplo, n, lo + 1, hi,
                    FroLassq(A, OffColumn(uplo, lo, n), "abs", st))

FroDouble_scaleByTwo(st) ==
    IF Lt(st.ssq, safe_max)
    THEN [st EXCEPT !.ssq = Mul(@, two),
                    !.events = Append(@, Step("double ssq", st.scale,
                                              Mul(st.ssq, two)))]
    ELSE [st EXCEPT !.scale = Mul(@, two),
                    !.events = Append(@, Step("double scale",
                                              Mul(st.scale, two), st.ssq))]

FroDouble_ssqAlways(st) ==
    [st EXCEPT !.ssq = Mul(@, two),
               !.events = Append(@, Step("double ssq", st.scale,
                                         Mul(st.ssq, two)))]

\* multiplies the sum by 2
FroDouble(st) ==
    IF Lt(st.ssq, safe_max)
    THEN [st EXCEPT !.ssq = Mul(@, two),
                    !.events = Append(@, Step("double ssq", st.scale,
                                              Mul(st.ssq, two)))]
    ELSE [st EXCEPT !.scale = Mul(@, sqrt(two)),
                    !.events = Append(@, Step("double scale",
                                              Mul(st.scale, sqrt(two)),
                                              st.ssq))]

DiagOrder(n) == [k \in 1..n |-> <<k, k>>]

QuickReturn_negativeOnly(n) == n < 0

\* if ( n <= 0 ) return zero;
QuickReturn(n) == n <= 0

NoCall == [norm |-> zero, reads |-> <<>>, events |-> <<>>]

\* lanhe( normType, uplo, A ) for max_norm and frob_norm: the value returned,
\* the entries of A read in order, and the steps of the Frobenius branch
\* return norm, with the entries read
MaxReturn(st) == [norm |-> st.norm, reads |-> st.reads, events |-> <<>>]

\* norm = scale * sqrt(ssq)
FroReturn(st) ==
    [norm |-> Mul(st.scale, sqrt(st.ssq)), reads |-> st.reads,
     events |-> st.events]

lanhe(normType, uplo, A, n) ==
    IF QuickReturn(n) THEN NoCall
    ELSE IF normType = "max"
    THEN MaxReturn(MaxScan(A, MaxOrder(uplo, n), 1,
                           [norm |-> zero, reads |-> <<>>, returned |-> FALSE]))
    ELSE FroReturn(
           FroLassq(A, DiagOrder(n), "absreal",
             FroDouble(
               FroColumns(A, uplo, n,
                          IF uplo = "Upper" THEN 2 ELSE 1,
                          IF uplo = "Upper" THEN n ELSE n - 1,
                          [scale |-> zero, ssq |-> one, reads |-> <<>>,
                           events |-> <<>>]))))

lansy_fullDiagonal(normType, uplo, A, n) ==
    lanhe(normType, uplo,
          [p \in DOMAIN A |-> IF p[1] = p[2] THEN C(abs(A[p]), zero) ELSE A[p]],
          n)

\* the symmetric-matrix norm of the same engine, to which the workspace
\* variant redirects max_norm and frob_norm
lansy(normType, uplo, A, n) == lanhe(normType, uplo, A, n)

(***************************************************************************)
(* lanhe with a scratch buffer.  The buffer is carried with the set of     *)
(* indices written so far and with whether a value the caller left in it   *)
(* has been read.                                                          *)
(***************************************************************************)
WRead(w, i) == [w EXCEPT !.initread = @ \/ i \notin w.written]

WWrite(w, i, v) == [w EXCEPT !.buf[i] = v, !.written = @ \cup {i}]

WorkZero_skipped(w, i, n) == w

RECURSIVE WorkZero(_, _, _)
\* for (i = 0; i < n; ++i) work[i] = 0
WorkZero(w, i, n) ==
    IF i > n THEN w ELSE WorkZero(WWrite(w, i, zero), i + 1, n)

\* absa = abs( A(i,j) ); sum += absa; work[i] += absa;
\* work[i] += absa
WAdd(w, i, absa) == WWrite(WRead(w, i), i, Add(w.buf[i], absa))

Mirror_ownColumnOnly(A, i, j, st) ==
    [st EXCEPT !.sum = Add(@, abs(A[<<i, j>>])), !.reads = Append(@, <<i, j>>)]

\* absa = abs( A(i,j) ); sum += absa; work[i] += absa;
Mirror(A, i, j, st) ==
    [st EXCEPT !.sum = Add(@, abs(A[<<i, j>>])),
               !.w = WAdd(@, i, abs(A[<<i, j>>])),
               !.reads = Append(@, <<i, j>>)]

RECURSIVE Rows(_, _, _, _, _)
\* the inner loop over rows lo..hi of column j
Rows(A, j, lo, hi, st) ==
    IF lo > hi THEN st ELSE Rows(A, j, lo + 1, hi, Mirror(A, lo, j, st))

\* work[j] = sum + abs( real(A(j,j)) )
UpperDiag(A, j, st) ==
    [st EXCEPT !.w = WWrite(@, j, Add(st.sum, DiagMagnitude(A[<<j, j>>]))),
               !.reads = Append(@, <<j, j>>)]

RECURSIVE UpperColumns(_, _, _, _)
\* upper: the loop over the columns j..n
UpperColumns(A, j, n, st) ==
    IF j > n THEN st
    ELSE UpperColumns(A, j + 1, n,
                      UpperDiag(A, j, Rows(A, j, 1, j - 1,
                                           [st EXCEPT !.sum = zero])))

RECURSIVE WorkMax(_, _, _)
\* upper: the maximum of work[i..n-1], returning the first NaN
WorkMax(i, n, st) ==
    IF i > n \/ st.returned THEN st
    ELSE WorkMax(i + 1, n,
                 MaxVisit(st.w.buf[i], [st EXCEPT !.w = WRead(@, i)]))

\* sum = work[j] + abs( real(A(j,j)) )
LowerDiag(A, j, st) ==
    [st EXCEPT !.w = WRead(@, j),
               !.sum = Add(st.w.buf[j], DiagMagnitude(A[<<j, j>>])),
               !.reads = Append(@, <<j, j>>)]

\* lower: the maximum test on the finished column sum
SumVisit(st) == MaxVisit(st.sum, st)

RECURSIVE LowerColumns(_, _, _, _)
\* lower: the loop over the columns j..n
LowerColumns(A, j, n, st) ==
    IF j > n \/ st.returned THEN st
    ELSE LowerColumns(A, j + 1, n,
                      SumVisit(Rows(A, j, j + 1, n, LowerDiag(A, j, st))))

\* lanhe( normType, uplo, A, work ): the value returned, the entries of A
\* read in order, and the scratch buffer on return
WorkReturn(st) == [ret |-> MaxReturn(st), w |-> st.w]

\* the One/Inf branch on the zeroed buffer
WorkNorm(uplo, A, n, st) ==
    IF uplo = "Upper"
    THEN WorkReturn(WorkMax(1, n, UpperColumns(A, 1, n, st)))
    ELSE WorkReturn(LowerColumns(A, 1, n, st))

Untouched(work) == [buf |-> work, written |-> {}, initread |-> FALSE]

lanheW(normType, uplo, A, n, work) ==
    IF normType \in {"max", "frob"}
    THEN [ret |-> lansy(normType, uplo, A, n), w |-> Untouched(work)]
    ELSE IF QuickReturn(n) THEN [ret |-> NoCall, w |-> Untouched(work)]
    ELSE WorkNorm(uplo, A, n,
                  [norm |-> zero, returned |-> FALSE, sum |-> zero,
                   w |-> WorkZero(Untouched(work), 1, n), reads |-> <<>>])

(***************************************************************************)
(* A caller of lanhe: a view, a triangle, a scratch buffer, one call       *)
(***************************************************************************)
VARIABLES
    A, n,              \* the view and its order nrows(A)
    uplo,              \* the referenced triangle
    work_in,           \* the scratch buffer as the caller left it
    pc,                \* "ready" until lanhe has been called, then "returned"
    normType,          \* the norm asked for
    overload,          \* "plain": lanhe(normType, uplo, A); "work": with work
    norm,              \* the value returned
    reads,             \* entries of A read by the call, in order
    events,            \* steps of the Frobenius branch, in order
    work,              \* the scratch buffer
    wwritten,          \* indices of work written by the call
    winitread          \* the call read a value the caller left in work

lanheVars == <<A, n, uplo, work_in, pc, normType, overload, norm, reads,
               events, work, wwritten, winitread>>

MaxN == 3

Pos(k) == (1..k) \X (1..k)

\* entries: zero, medium, modulus 5 with real part -4, small, NaN
MVals == { R(0, 1), R(3, 1), C(Q(-4, 1), Q(3, 1)), R(1, 8), C(NaN, zero) }

\* the views of order k that are zero except at two places p and q
Sparse(k) ==
    { [r \in Pos(k) |-> IF r = p THEN a ELSE IF r = q THEN b ELSE R(0, 1)] :
        p \in Pos(k), q \in Pos(k), a \in MVals, b \in MVals }

\* diagonal 4, 9, 16 and one off-diagonal entry 3 in the upper triangle
Example ==
    [p \in Pos(3) |->
        IF p = <<1, 1>> THEN R(4, 1)
        ELSE IF p = <<2, 2>> THEN R(9, 1)
        ELSE IF p = <<3, 3>> THEN R(16, 1)
        ELSE IF p = <<1, 2>> THEN R(3, 1)
        ELSE R(0, 1)]

\* the empty view for k = 0; the sparse views, and for k = 3 the example
Views(k) ==
    IF k = 0 THEN { [r \in Pos(k) |-> R(0, 1)] }
    ELSE IF k = 3 THEN Sparse(k) \cup {Example}
    ELSE Sparse(k)

\* scratch buffers a caller may pass for order k: of length k and full of
\* NaN, or one entry longer and full of 7
Buffers(k) == { [i \in 1..k |-> NaN], [i \in 1..(k + 1) |-> Q(7, 1)] }

LanheInit ==
    /\ n \in 0..MaxN
    /\ A \in Views(n)
    /\ uplo \in {"Upper", "Lower"}
    /\ work_in \in Buffers(n)
    /\ work = work_in
    /\ pc = "ready"
    /\ normType = "none"
    /\ overload = "none"
    /\ norm = zero
    /\ reads = <<>>
    /\ events = <<>>
    /\ wwritten = {}
    /\ winitread = FALSE

LanheIdle ==
    /\ n = 0 /\ A = <<>> /\ uplo = "Upper" /\ work_in = <<>> /\ work = <<>>
    /\ pc = "idle" /\ normType = "none" /\ overload = "none" /\ norm = zero
    /\ reads = <<>> /\ events = <<>> /\ wwritten = {} /\ winitread = FALSE

(***************************************************************************)
(* A caller threading one ScaleState through successive lassq calls        *)
(***************************************************************************)
VARIABLES
    scl, sumsq,        \* the ScaleState the caller owns
    scl_in, sumsq_in,  \* its value on entry to the latest call
    x,                 \* the vector passed to the latest call
    nread,             \* elements of x the latest call read
    start,             \* the state the caller created
    xs,                \* every element passed so far, in order
    ncalls,            \* calls made so far
    nanSeen            \* some call has processed an element of NaN magnitude

lassqVars == <<scl, sumsq, scl_in, sumsq_in, x, nread, start, xs, ncalls, nanSeen>>

MaxCalls == 3
MaxTotal == 3

\* element values: zero, small, medium, medium, big (modulus 5), NaN
Elems == { R(0, 1), R(1, 8), R(3, 1), R(4, 1), C(Q(-3, 1), Q(4, 1)),
           C(NaN, zero) }

\* states a caller may create or hold: (0,1), (1,0), (0,0), (2,0), medium
\* values 3 = 1*sqrt(9) = 2*sqrt(9/4), small value 1/8 = (1/ssml)*sqrt(1),
\* big value 5 = (1/sbig)*sqrt(25/256) = 5*sqrt(1), and the NaN states
StartStates ==
    { <<zero, one>>, <<one, zero>>, <<zero, zero>>, <<two, zero>>,
      <<one, Q(9, 1)>>, <<two, Q(9, 4)>>, <<Q(1, 8), one>>,
      <<Q(16, 1), Q(25, 256)>>, <<Q(5, 1), one>>,
      <<NaN, one>>, <<one, NaN>>, <<NaN, zero>>, <<zero, NaN>> }

RECURSIVE SeqsUpTo(_, _)
SeqsUpTo(S, k) ==
    IF k = 0 THEN { <<>> }
    ELSE LET T == SeqsUpTo(S, k - 1)
         IN  T \cup { Append(t, e) : t \in { u \in T : Len(u) = k - 1 }, e \in S }

HasNaNMagnitude(v, f) == \E i \in 1..Len(v) : isnan(absFunc(f, v[i]))

LassqInit ==
    /\ \E s \in StartStates :
          /\ scl = s[1] /\ sumsq = s[2]
          /\ scl_in = s[1] /\ sumsq_in = s[2]
          /\ start = [scl |-> s[1], sumsq |-> s[2]]
    /\ x = <<>>
    /\ nread = 0
    /\ xs = <<>>
    /\ ncalls = 0
    /\ nanSeen = FALSE

(***************************************************************************)
(* Views over caller-owned memory.  A legacyMatrix is the record of its    *)
(* layout, extents m and n, buffer pointer and leading dimension; indices  *)
(* are 0-based as in the code.                                             *)
(***************************************************************************)
legacyMatrix(layout, mr, nc, ptr, ldim) ==
    [layout |-> layout, m |-> mr, n |-> nc, ptr |-> ptr, ldim |-> ldim]

colmajor_matrix(ptr, mr, nc, lda) == legacyMatrix("ColMajor", mr, nc, ptr, lda)

rowmajor_matrix(ptr, mr, nc, lda) == legacyMatrix("RowMajor", mr, nc, ptr, lda)

transpose_keepLayout(V) == legacyMatrix(V.layout, V.n, V.m, V.ptr, V.ldim)

transpose_packed(V) ==
    IF V.layout = "ColMajor"
    THEN legacyMatrix("RowMajor", V.n, V.m, V.ptr, V.n)
    ELSE legacyMatrix("ColMajor", V.n, V.m, V.ptr, V.n)

transpose(V) ==
    IF V.layout = "ColMajor"
    THEN legacyMatrix("RowMajor", V.n, V.m, V.ptr, V.ldim)
    ELSE legacyMatrix("ColMajor", V.n, V.m, V.ptr, V.ldim)

\* offset of element (i, j) from the buffer pointer:
\* column-major i + j*ld, row-major j + i*ld
Offset(V, i, j) ==
    IF V.layout = "ColMajor" THEN i + j * V.ldim ELSE j + i * V.ldim

VARIABLES
    view,      \* the view at hand
    view0,     \* the view as it was constructed
    ntrans,    \* number of transpose calls that led from view0 to view
    mem,       \* the caller's memory, by address
    nstores    \* number of elements stored through a view so far

viewVars == <<view, view0, ntrans, mem, nstores>>

MaxExt == 2
MaxLd == 3
MaxTrans == 3
MaxStores == 1

Pointers == {0, 1}

\* addresses a view of the largest extents can reach
Addresses == 0..(1 + MaxExt + MaxExt * MaxLd)

\* the views a caller constructs: the leading dimension is at least the
\* extent it strides over, and at least 1
Constructed ==
    { colmajor_matrix(a, m, k, lda) :
        a \in Pointers, m \in 0..MaxExt, k \in 0..MaxExt, lda \in 1..MaxLd }
    \cup
    { rowmajor_matrix(a, m, k, lda) :
        a \in Pointers, m \in 0..MaxExt, k \in 0..MaxExt, lda \in 1..MaxLd }

WellFormed(V) ==
    IF V.layout = "ColMajor" THEN V.ldim >= V.m ELSE V.ldim >= V.n

ViewInit ==
    /\ view0 \in { V \in Constructed : WellFormed(V) }
    /\ view = view0
    /\ ntrans = 0
    /\ mem = [a \in Addresses |-> 0]
    /\ nstores = 0

ViewIdle ==
    /\ view0 = legacyMatrix("none", 0, 0, 0, 1)
    /\ view = view0
    /\ ntrans = 0
    /\ mem = <<>>
    /\ nstores = 0

(***************************************************************************)
(* Strided vectors and the legacy swap.  idx_t is an unsigned integer of   *)
(* IdxBits bits; an array is a function on the offsets 0 .. length-1.      *)
(***************************************************************************)
IdxBits == 5

\* conversion to idx_t
ToIdx(z) == z % (2 ^ IdxBits)

\* legacyVector<T,int_t>{ n, x, inc }
vector(ptr, len, inc) == [n |-> len, ptr |-> ptr, inc |-> inc]

BaseOffset_fromLength(len, inc) ==
    IF inc > 0 THEN 0 ELSE ToIdx(ToIdx(-len) * ToIdx(inc))

\* incx > 0 ? 0 : (-n + 1)*incx, in idx_t
BaseOffset(len, inc) ==
    IF inc > 0 THEN 0 ELSE ToIdx(ToIdx(ToIdx(-len) + 1) * ToIdx(inc))

\* offset of element i of a vector view: base + i*increment
ElemOffset(v, i) == v.ptr + i * v.inc

\* exchange of the elements at offsets ox of x and oy of y; an offset
\* outside its array is recorded and nothing is exchanged
Exchange(st, ox, oy) ==
    IF ox \in DOMAIN st.x /\ oy \in DOMAIN st.y
    THEN [x |-> [st.x EXCEPT ![ox] = st.y[oy]],
          y |-> [st.y EXCEPT ![oy] = st.x[ox]],
          accx |-> st.accx \cup {ox}, accy |-> st.accy \cup {oy}]
    ELSE [st EXCEPT !.accx = @ \cup {ox}, !.accy = @ \cup {oy}]

RECURSIVE SwapLoop(_, _, _, _)
\* blas::swap( _x, _y ): elements i .. n-1
SwapLoop(vx, vy, i, st) ==
    IF i >= vx.n THEN st
    ELSE SwapLoop(vx, vy, i + 1,
                  Exchange(st, ElemOffset(vx, i), ElemOffset(vy, i)))

Swapped2(vx, vy, xa, ya) ==
    SwapLoop(vx, vy, 0, [x |-> xa, y |-> ya, accx |-> {}, accy |-> {}])

\* swap( n, x, incx, y, incy ) of the legacy interface
swap(len, xa, incx, ya, incy) ==
    IF incx = 0 \/ incy = 0
    THEN [error |-> TRUE, x |-> xa, y |-> ya, accx |-> {}, accy |-> {}]
    ELSE [error |-> FALSE] @@
         Swapped2(vector(BaseOffset(len, incx), len, incx),
                  vector(BaseOffset(len, incy), len, incy), xa, ya)

VARIABLES
    swN, swIncx, swIncy,   \* the arguments n, incx, incy
    swX0, swY0,            \* the arrays x and y before the call
    swX, swY,              \* the arrays x and y
    swAccX, swAccY,        \* offsets of x and of y the call accessed
    swPc                   \* "ready", then "returned" or "error"

swapVars == <<swN, swIncx, swIncy, swX0, swY0, swX, swY, swAccX, swAccY, swPc>>

MaxLen == 3
MaxInc == 2

IAbsInc(inc) == IF inc < 0 THEN -inc ELSE inc

\* an array of length (n-1)*abs(inc) + 1 holding its own offsets under tag
Array(tag, len, inc) ==
    [k \in 0..((len - 1) * IAbsInc(inc)) |-> <<tag, k>>]

SwapInit ==
    /\ swN \in 0..MaxLen
    /\ swIncx \in (-MaxInc)..MaxInc
    /\ swIncy \in (-MaxInc)..MaxInc
    /\ swX0 = Array("x", swN, swIncx)
    /\ swY0 = Array("y", swN, swIncy)
    /\ swX = swX0 /\ swY = swY0
    /\ swAccX = {} /\ swAccY = {}
    /\ swPc = "ready"

SwapIdle ==
    /\ swN = 0 /\ swIncx = 1 /\ swIncy = 1
    /\ swX0 = <<>> /\ swY0 = <<>> /\ swX = <<>> /\ swY = <<>>
    /\ swAccX = {} /\ swAccY = {}
    /\ swPc = "idle"

(***************************************************************************)
(* lascl of the legacy-pointer interface: argument checks and dispatch.    *)
(* The arguments kl, ku, m, n, lda are of type idx_t.                      *)
(***************************************************************************)
MatrixTypes ==
    {"General", "Lower", "Upper", "Hessenberg", "LowerBand", "UpperBand",
     "Band"}

IMax(a, b) == IF a >= b THEN a ELSE b

\* the argument checks in their order, each with the code it reports
Checks(matrixtype, kl, ku, mr, nc, lda) ==
    << [fires |-> /\ matrixtype # "General" /\ matrixtype # "Lower"
                  /\ matrixtype # "Upper" /\ matrixtype # "Hessenberg",
        info |-> -1],
       [fires |-> /\ matrixtype \in {"LowerBand", "UpperBand", "Band"}
                  /\ (kl < 0 \/ kl > IMax(ToIdx(mr - 1), 0)),
        info |-> -2],
       [fires |-> /\ matrixtype \in {"LowerBand", "UpperBand", "Band"}
                  /\ (ku < 0 \/ ku > IMax(ToIdx(nc - 1), 0)),
        info |-> -3],
       [fires |-> matrixtype \in {"LowerBand", "UpperBand"} /\ kl # ku,
        info |-> -3],
       [fires |-> mr < 0, info |-> -6],
       [fires |-> /\ lda < mr
                  /\ matrixtype \in {"General", "Lower", "Upper", "Hessenberg"},
        info |-> -9],
       [fires |-> matrixtype = "LowerBand" /\ lda < ToIdx(kl + 1),
        info |-> -9],
       [fires |-> matrixtype = "UpperBand" /\ lda < ToIdx(ku + 1),
        info |-> -9],
       [fires |-> matrixtype = "Band" /\ lda < ToIdx(2 * kl + ku + 1),
        info |-> -9] >>

\* the routine the call is handed to
Dispatch(matrixtype) ==
    IF matrixtype = "General" THEN "general_matrix"
    ELSE IF matrixtype = "Lower" THEN "lower_triangle"
    ELSE IF matrixtype = "Upper" THEN "upper_triangle"
    ELSE IF matrixtype = "Hessenberg" THEN "hessenberg_matrix"
    ELSE IF matrixtype = "LowerBand" THEN "symmetric_lowerband_t"
    ELSE IF matrixtype = "UpperBand" THEN "symmetric_upperband_t"
    ELSE IF matrixtype = "Band" THEN "band_matrix_t"
    ELSE "none"

\* lapack_error_if( cond, info ): the first check that fires ends the call
FirstFiring(cs) ==
    IF \E k \in 1..Len(cs) : cs[k].fires
    THEN CHOOSE k \in 1..Len(cs) :
            cs[k].fires /\ \A h \in 1..(k - 1) : ~cs[h].fires
    ELSE 0

Checked(cs, k, matrixtype) ==
    IF k # 0 THEN [info |-> cs[k].info, routine |-> "none"]
    ELSE [info |-> 0, routine |-> Dispatch(matrixtype)]

lascl(matrixtype, kl, ku, mr, nc, lda) ==
    Checked(Checks(matrixtype, kl, ku, mr, nc, lda),
            FirstFiring(Checks(matrixtype, kl, ku, mr, nc, lda)), matrixtype)

VARIABLES
    lsType, lsKl, lsKu, lsM, lsN, lsLda,   \* the arguments
    lsPc,                                  \* "ready", then "returned"
    lsInfo,                                \* the value returned
    lsRoutine                              \* the routine dispatched to

lasclVars == <<lsType, lsKl, lsKu, lsM, lsN, lsLda, lsPc, lsInfo, lsRoutine>>

LasclInit ==
    /\ lsType \in MatrixTypes
    /\ lsKl \in 0..MaxExt /\ lsKu \in 0..MaxExt
    /\ lsM \in 0..MaxExt /\ lsN \in 0..MaxExt
    /\ lsLda \in 0..MaxLd
    /\ lsPc = "ready" /\ lsInfo = 0 /\ lsRoutine = "none"

LasclIdle ==
    /\ lsType = "General" /\ lsKl = 0 /\ lsKu = 0 /\ lsM = 0 /\ lsN = 0
    /\ lsLda = 0 /\ lsPc = "idle" /\ lsInfo = 0 /\ lsRoutine = "none"

(***************************************************************************)
(* potrs.  The matrix B is carried as the sequence of triangular solves    *)
(* applied to the caller's B; trsm itself is left uninterpreted.           *)
(***************************************************************************)
\* trsm( side, uplo, trans, diag, alpha, A, B )
trsm(side, ul, trans, diag, alpha, B) ==
    Append(B, [side |-> side, uplo |-> ul, trans |-> trans, diag |-> diag,
               alpha |-> alpha])

Solves_upperOrder(ul, B) ==
    trsm("left_side", ul, "noTranspose", "nonUnit_diagonal", one,
         trsm("left_side", ul, "conjTranspose", "nonUnit_diagonal", one, B))

\* the two solves of potrs
Solves(ul, B) ==
    IF ul = "Upper"
    THEN trsm("left_side", ul, "noTranspose", "nonUnit_diagonal", one,
              trsm("left_side", ul, "conjTranspose", "nonUnit_diagonal", one,
                   B))
    ELSE trsm("left_side", ul, "conjTranspose", "nonUnit_diagonal", one,
              trsm("left_side", ul, "noTranspose", "nonUnit_diagonal", one,
                   B))

\* potrs( uplo, A, B ) for A of shape ra-by-ca and B with rb rows
potrs(ul, ra, ca, rb, B) ==
    IF ra # ca THEN [info |-> -2, B |-> B]
    ELSE IF rb # ca THEN [info |-> -3, B |-> B]
    ELSE [info |-> 0, B |-> Solves(ul, B)]

VARIABLES
    poUplo,                 \* the triangle of A that holds the factor
    poRowsA, poColsA,       \* nrows(A), ncols(A)
    poRowsB, poColsB,       \* nrows(B), ncols(B)
    poB,                    \* the solves applied to B so far
    poPc,                   \* "ready", then "returned"
    poInfo                  \* the value returned

potrsVars ==
    <<poUplo, poRowsA, poColsA, poRowsB, poColsB, poB, poPc, poInfo>>

PotrsInit ==
    /\ poUplo \in {"Upper", "Lower"}
    /\ poRowsA \in 0..MaxExt /\ poColsA \in 0..MaxExt
    /\ poRowsB \in 0..MaxExt /\ poColsB \in 0..MaxExt
    /\ poB = <<>>
    /\ poPc = "ready" /\ poInfo = 0

PotrsIdle ==
    /\ poUplo = "Upper" /\ poRowsA = 0 /\ poColsA = 0 /\ poRowsB = 0
    /\ poColsB = 0 /\ poB = <<>> /\ poPc = "idle" /\ poInfo = 0

(***************************************************************************)
(* herk: Hermitian rank-k update.  An r-by-c matrix is a function on       *)
(* (1..r) \X (1..c); the code's 0-based (i, j) is <<i+1, j+1>> here.       *)
(***************************************************************************)
conj(z) == C(z.re, Mul(Q(-1, 1), z.im))

imag(z) == z.im

\* z + w and z * w of two complex numbers
CAdd(z, w) == C(Add(z.re, w.re), Add(z.im, w.im))

CMul(z, w) ==
    C(Add(Mul(z.re, w.re), Mul(Q(-1, 1), Mul(z.im, w.im))),
      Add(Mul(z.re, w.im), Mul(z.im, w.re)))

\* a * z for a real a
RTimes(a, z) == C(Mul(a, z.re), Mul(a, z.im))

\* the complex number a real number converts to
FromReal(a) == C(a, zero)

HerkRows_wholeColumn(ul, j, ord) == (1..ord) \ {j}

\* the rows of column j beside the diagonal that the loops run over
HerkRows(ul, j, ord) == IF ul # "Lower" THEN 1..(j - 1) ELSE (j + 1)..ord

HerkScale_fullDiagonal(Cm, j, rows, beta) ==
    [p \in DOMAIN Cm |->
        IF p[2] = j /\ (p[1] \in rows \/ p[1] = j) THEN RTimes(beta, Cm[p])
        ELSE Cm[p]]

\* C(i,j) *= beta;  C(j,j) = beta * real( C(j,j) )
HerkScale(Cm, j, rows, beta) ==
    [p \in DOMAIN Cm |->
        IF p[2] = j /\ p[1] \in rows THEN RTimes(beta, Cm[p])
        ELSE IF p = <<j, j>> THEN FromReal(Mul(beta, real(Cm[p])))
        ELSE Cm[p]]

\* C(i,j) += A(i,l)*t;  C(j,j) += real( A(j,l)*t ),  t = alpha*conj(A(j,l))
HerkAxpy(Cm, Am, j, l, rows, t) ==
    [p \in DOMAIN Cm |->
        IF p[2] = j /\ p[1] \in rows
        THEN CAdd(Cm[p], CMul(Am[<<p[1], l>>], t))
        ELSE IF p = <<j, j>>
        THEN CAdd(Cm[p], FromReal(real(CMul(Am[<<j, l>>], t))))
        ELSE Cm[p]]

RECURSIVE HerkLoopL(_, _, _, _, _, _, _)
\* the loop over l = lo .. kk of column j
HerkLoopL(Cm, Am, j, lo, kk, rows, alpha) ==
    IF lo > kk THEN Cm
    ELSE HerkLoopL(HerkAxpy(Cm, Am, j, lo, rows,
                            RTimes(alpha, conj(Am[<<j, lo>>]))),
                   Am, j, lo + 1, kk, rows, alpha)

RECURSIVE HerkNoTrans(_, _, _, _, _, _, _, _)
\* trans == Op::NoTrans: columns j .. ord
HerkNoTrans(Cm, Am, j, ord, kk, ul, alpha, beta) ==
    IF j > ord THEN Cm
    ELSE HerkNoTrans(
             HerkLoopL(HerkScale(Cm, j, HerkRows(ul, j, ord), beta),
                       Am, j, 1, kk, HerkRows(ul, j, ord), alpha),
             Am, j + 1, ord, kk, ul, alpha, beta)

RECURSIVE DotConj(_, _, _, _, _)
\* sum over l = lo .. kk of conj( A(l,i) ) * A(l,j)
DotConj(Am, i, j, lo, kk) ==
    IF lo > kk THEN C(zero, zero)
    ELSE CAdd(CMul(conj(Am[<<lo, i>>]), Am[<<lo, j>>]),
              DotConj(Am, i, j, lo + 1, kk))

RECURSIVE NormSq(_, _, _, _)
\* sum over l = lo .. kk of real(A(l,j))^2 + imag(A(l,j))^2
NormSq(Am, j, lo, kk) ==
    IF lo > kk THEN zero
    ELSE Add(Add(Mul(real(Am[<<lo, j>>]), real(Am[<<lo, j>>])),
                 Mul(imag(Am[<<lo, j>>]), imag(Am[<<lo, j>>]))),
             NormSq(Am, j, lo + 1, kk))

\* C(i,j) = alpha*sum + beta*C(i,j);  C(j,j) = alpha*sum + beta*real(C(j,j))
HerkConjColumn(Cm, Am, j, rows, kk, alpha, beta) ==
    [p \in DOMAIN Cm |->
        IF p[2] = j /\ p[1] \in rows
        THEN CAdd(RTimes(alpha, DotConj(Am, p[1], j, 1, kk)),
                  RTimes(beta, Cm[p]))
        ELSE IF p = <<j, j>>
        THEN FromReal(Add(Mul(alpha, NormSq(Am, j, 1, kk)),
                          Mul(beta, real(Cm[p]))))
        ELSE Cm[p]]

RECURSIVE HerkConjTrans(_, _, _, _, _, _, _, _)
\* trans == Op::ConjTrans: columns j .. ord
HerkConjTrans(Cm, Am, j, ord, kk, ul, alpha, beta) ==
    IF j > ord THEN Cm
    ELSE HerkConjTrans(
             HerkConjColumn(Cm, Am, j, HerkRows(ul, j, ord), kk, alpha, beta),
             Am, j + 1, ord, kk, ul, alpha, beta)

HerkMirror_plainCopy(Cm) ==
    [p \in DOMAIN Cm |-> IF p[1] > p[2] THEN Cm[<<p[2], p[1]>>] ELSE Cm[p]]

\* uplo == Uplo::General: C(i,j) = conj( C(j,i) ) for i > j
HerkMirror(Cm) ==
    [p \in DOMAIN Cm |->
        IF p[1] > p[2] THEN conj(Cm[<<p[2], p[1]>>]) ELSE Cm[p]]

HerkUpdate(ul, trans, alpha, Am, ord, kk, beta, Cm) ==
    IF trans = "NoTrans"
    THEN HerkNoTrans(Cm, Am, 1, ord, kk, ul, alpha, beta)
    ELSE HerkConjTrans(Cm, Am, 1, ord, kk, ul, alpha, beta)

HerkFinish(ul, Cm) == IF ul = "General" THEN HerkMirror(Cm) ELSE Cm

\* herk( uplo, trans, alpha, A, beta, C ) for A of shape ra-by-ca and a
\* square C of order ordC
herk(ul, trans, alpha, Am, ra, ca, beta, Cm, ordC) ==
    IF \/ ul \notin {"Lower", "Upper", "General"}
       \/ trans \notin {"NoTrans", "ConjTrans"}
       \/ ordC # (IF trans = "NoTrans" THEN ra ELSE ca)
    THEN [error |-> TRUE, C |-> Cm]
    ELSE [error |-> FALSE,
          C |-> HerkFinish(ul,
                    HerkUpdate(ul, trans, alpha, Am,
                               IF trans = "NoTrans" THEN ra ELSE ca,
                               IF trans = "NoTrans" THEN ca ELSE ra,
                               beta, Cm))]

VARIABLES
    hkUplo, hkTrans,        \* the arguments uplo and trans
    hkAlpha, hkBeta,        \* the real scalars alpha and beta
    hkA, hkRowsA, hkColsA,  \* the matrix A and its shape
    hkA0,                   \* A before the call
    hkC0, hkOrdC,           \* C before the call and its order
    hkC,                    \* the matrix C
    hkPc                    \* "ready", then "returned" or "error"

herkVars ==
    <<hkUplo, hkTrans, hkAlpha, hkBeta, hkA, hkRowsA, hkColsA, hkA0, hkC0,
      hkOrdC, hkC, hkPc>>

RPos(r, c) == (1..r) \X (1..c)

\* non-zero entries of A
HVals == { C(zero, zero), C(Q(1, 1), Q(2, 1)), C(zero, Q(-1, 1)) }

\* the r-by-c matrices that are zero except at two places, and a full one
HerkInputs(r, c) ==
    { [s \in RPos(r, c) |->
          IF s = p THEN a ELSE IF s = q THEN b ELSE C(zero, zero)] :
        p \in RPos(r, c), q \in RPos(r, c), a \in HVals, b \in HVals }
    \cup
    { [s \in RPos(r, c) |-> C(Q(s[1], 1), Q(s[2] - 3 * s[1], 1))] }

\* a full C, not Hermitian, with non-zero imaginary parts on the diagonal
HerkTarget(ord) ==
    [s \in RPos(ord, ord) |-> C(Q(s[1] + 2 * s[2], 1), Q(2 * s[1] - s[2], 1))]

HerkInit ==
    /\ hkUplo \in {"Upper", "Lower", "General"}
    /\ hkTrans \in {"NoTrans", "Trans", "ConjTrans"}
    /\ hkAlpha \in {Q(1, 1), Q(-2, 1)}
    /\ hkBeta \in {Q(0, 1), Q(3, 1)}
    /\ hkRowsA \in 0..MaxExt /\ hkColsA \in 0..MaxExt
    /\ hkA0 \in HerkInputs(hkRowsA, hkColsA)
    /\ hkA = hkA0
    /\ hkOrdC \in 0..MaxExt
    /\ hkC0 = HerkTarget(hkOrdC)
    /\ hkC = hkC0
    /\ hkPc = "ready"

HerkIdle ==
    /\ hkUplo = "Upper" /\ hkTrans = "NoTrans" /\ hkAlpha = one
    /\ hkBeta = one /\ hkRowsA = 0 /\ hkColsA = 0 /\ hkA0 = <<>>
    /\ hkA = <<>> /\ hkOrdC = 0 /\ hkC0 = <<>> /\ hkC = <<>>
    /\ hkPc = "idle"

restVars == <<viewVars, swapVars, lasclVars, potrsVars, herkVars>>

RestIdle == ViewIdle /\ SwapIdle /\ LasclIdle /\ PotrsIdle /\ HerkIdle

\* lassq( x, scl, sumsq ) with the default magnitude function
LassqCall ==
    /\ ncalls < MaxCalls
    /\ \E v \in SeqsUpTo(Elems, MaxTotal - Len(xs)) :
          \E out \in { lassq(v, scl, sumsq, "abs") } :
              /\ scl' = out.scl
              /\ sumsq' = out.sumsq
              /\ nread' = out.nread
              /\ scl_in' = scl
              /\ sumsq_in' = sumsq
              /\ x' = v
              /\ xs' = xs \o v
              /\ nanSeen' = (nanSeen \/ (out.nread > 0 /\ HasNaNMagnitude(v, "abs")))
    /\ ncalls' = ncalls + 1
    /\ UNCHANGED start
    /\ UNCHANGED <<lanheVars, restVars>>

LassqIdle ==
    /\ scl = zero /\ sumsq = one /\ scl_in = zero /\ sumsq_in = one
    /\ start = [scl |-> zero, sumsq |-> one]
    /\ x = <<>> /\ nread = 0 /\ xs = <<>> /\ ncalls = 0 /\ nanSeen = FALSE

\* norm = lanhe( normType, uplo, A )
LanheCall ==
    /\ pc = "ready"
    /\ \E t \in {"max", "frob"} :
          \E out \in { lanhe(t, uplo, A, n) } :
              /\ normType' = t
              /\ norm' = out.norm
              /\ reads' = out.reads
              /\ events' = out.events
    /\ overload' = "plain"
    /\ pc' = "returned"
    /\ UNCHANGED <<A, n, uplo, work_in, work, wwritten, winitread>>
    /\ UNCHANGED <<lassqVars, restVars>>

\* norm = lanhe( normType, uplo, A, work )
LanheWorkCall ==
    /\ pc = "ready"
    /\ \E t \in {"max", "one", "inf", "frob"} :
          \E out \in { lanheW(t, uplo, A, n, work) } :
              /\ normType' = t
              /\ norm' = out.ret.norm
              /\ reads' = out.ret.reads
              /\ events' = out.ret.events
              /\ work' = out.w.buf
              /\ wwritten' = out.w.written
              /\ winitread' = out.w.initread
    /\ overload' = "work"
    /\ pc' = "returned"
    /\ UNCHANGED <<A, n, uplo, work_in>>
    /\ UNCHANGED <<lassqVars, restVars>>

vars == <<lassqVars, lanheVars, restVars>>

\* the accumulator and its caller
Init == LassqInit /\ LanheIdle /\ RestIdle

Next == LassqCall

Spec == Init /\ [][Next]_vars

\* the norm routines and their caller
InitLanhe == LanheInit /\ LassqIdle /\ RestIdle

NextLanhe == LanheCall \/ LanheWorkCall

SpecLanhe == InitLanhe /\ [][NextLanhe]_vars

\* B = transpose( view )
Transpose ==
    /\ view.layout # "none"
    /\ ntrans < MaxTrans
    /\ view' = transpose(view)
    /\ ntrans' = ntrans + 1
    /\ UNCHANGED <<view0, mem, nstores>>
    /\ UNCHANGED <<lassqVars, lanheVars, swapVars, lasclVars, potrsVars,
                   herkVars>>

\* view(i, j) = 1
Store ==
    /\ view.layout # "none"
    /\ nstores < MaxStores
    /\ \E i \in 0..(view.m - 1), j \in 0..(view.n - 1) :
          mem' = [mem EXCEPT ![view.ptr + Offset(view, i, j)] = 1]
    /\ nstores' = nstores + 1
    /\ UNCHANGED <<view, view0, ntrans>>
    /\ UNCHANGED <<lassqVars, lanheVars, swapVars, lasclVars, potrsVars,
                   herkVars>>

InitView ==
    ViewInit /\ LassqIdle /\ LanheIdle /\ SwapIdle /\ LasclIdle /\ PotrsIdle
    /\ HerkIdle

NextView == Transpose \/ Store

SpecView == InitView /\ [][NextView]_vars

\* swap( n, x, incx, y, incy )
SwapCall ==
    /\ swPc = "ready"
    /\ \E out \in { swap(swN, swX, swIncx, swY, swIncy) } :
          /\ swX' = out.x /\ swY' = out.y
          /\ swAccX' = out.accx /\ swAccY' = out.accy
          /\ swPc' = IF out.error THEN "error" ELSE "returned"
    /\ UNCHANGED <<swN, swIncx, swIncy, swX0, swY0>>
    /\ UNCHANGED <<lassqVars, lanheVars, viewVars, lasclVars, potrsVars,
                   herkVars>>

InitSwap ==
    SwapInit /\ LassqIdle /\ LanheIdle /\ ViewIdle /\ LasclIdle /\ PotrsIdle
    /\ HerkIdle

NextSwap == SwapCall

SpecSwap == InitSwap /\ [][NextSwap]_vars

\* info = lascl( matrixtype, kl, ku, b, a, m, n, A, lda )
LasclCall ==
    /\ lsPc = "ready"
    /\ \E out \in { lascl(lsType, lsKl, lsKu, lsM, lsN, lsLda) } :
          /\ lsInfo' = out.info
          /\ lsRoutine' = out.routine
    /\ lsPc' = "returned"
    /\ UNCHANGED <<lsType, lsKl, lsKu, lsM, lsN, lsLda>>
    /\ UNCHANGED <<lassqVars, lanheVars, viewVars, swapVars, potrsVars,
                   herkVars>>

InitLascl ==
    LasclInit /\ LassqIdle /\ LanheIdle /\ ViewIdle /\ SwapIdle /\ PotrsIdle
    /\ HerkIdle

NextLascl == LasclCall

SpecLascl == InitLascl /\ [][NextLascl]_vars

\* info = potrs( uplo, A, B )
PotrsCall ==
    /\ poPc = "ready"
    /\ \E out \in { potrs(poUplo, poRowsA, poColsA, poRowsB, poB) } :
          /\ poInfo' = out.info
          /\ poB' = out.B
    /\ poPc' = "returned"
    /\ UNCHANGED <<poUplo, poRowsA, poColsA, poRowsB, poColsB>>
    /\ UNCHANGED <<lassqVars, lanheVars, viewVars, swapVars, lasclVars,
                   herkVars>>

InitPotrs ==
    PotrsInit /\ LassqIdle /\ LanheIdle /\ ViewIdle /\ SwapIdle /\ LasclIdle
    /\ HerkIdle

NextPotrs == PotrsCall

SpecPotrs == InitPotrs /\ [][NextPotrs]_vars

\* herk( uplo, trans, alpha, A, beta, C )
HerkCall ==
    /\ hkPc = "ready"
    /\ \E out \in { herk(hkUplo, hkTrans, hkAlpha, hkA, hkRowsA, hkColsA,
                         hkBeta, hkC, hkOrdC) } :
          /\ hkC' = out.C
          /\ hkPc' = IF out.error THEN "error" ELSE "returned"
    /\ UNCHANGED <<hkUplo, hkTrans, hkAlpha, hkBeta, hkA, hkRowsA, hkColsA,
                   hkA0, hkC0, hkOrdC>>
    /\ UNCHANGED <<lassqVars, lanheVars, viewVars, swapVars, lasclVars,
                   potrsVars>>

InitHerk ==
    HerkInit /\ LassqIdle /\ LanheIdle /\ ViewIdle /\ SwapIdle /\ LasclIdle
    /\ PotrsIdle

NextHerk == HerkCall

SpecHerk == InitHerk /\ [][NextHerk]_vars

(***************************************************************************)
(* What a call is measured against                                         *)
(***************************************************************************)
\* the value scl^2 * sumsq a state stands for
Value(s, q) == Mul(SQUARE(s), q)

Reconstruct(s, q) == Mul(s, sqrt(q))

\* the squared terms a call combines: |x_i|^2 and the incoming value
Terms(v, s, q) ==
    [i \in 1..(Len(v) + 1) |->
        IF i <= Len(v) THEN SQUARE(abs(v[i])) ELSE Value(s, q)]

IsBigTerm(t)   == Gt(t, SQUARE(tbig))
IsSmallTerm(t) == Lt(t, SQUARE(tsml)) /\ ~Eq(t, zero)
IsMedTerm(t)   == ~isnan(t) /\ ~IsBigTerm(t) /\ ~Lt(t, SQUARE(tsml))

RECURSIVE SumTerms(_, _, _)
SumTerms(t, i, keepSmall) ==
    IF i > Len(t) THEN zero
    ELSE Add(IF keepSmall \/ ~IsSmallTerm(t[i]) THEN t[i] ELSE zero,
             SumTerms(t, i + 1, keepSmall))

Finite(v) == \A i \in 1..Len(v) : ~isnan(v[i].re) /\ ~isnan(v[i].im)

Admissible(s, q) ==
    ~isnan(s) /\ ~isnan(q) /\ ~Lt(s, zero) /\ ~Lt(q, zero)

LastTerms == Terms(x, scl_in, sumsq_in)

CallChecked == ncalls > 0 /\ Admissible(scl_in, sumsq_in) /\ Finite(x)

\* C1 as stated: in exact arithmetic, scl_out^2 * sumsq_out is the sum of
\* all |x_i|^2 plus scl_in^2 * sumsq_in, for every mixture of big, medium
\* and small elements.
C1_ExactSum ==
    CallChecked => Value(scl, sumsq) = SumTerms(LastTerms, 1, TRUE)

\* C1 amended: scl_out^2 * sumsq_out is the sum of all |x_i|^2 plus
\* scl_in^2 * sumsq_in unless a term above tbig is present, and then it is
\* that sum without the non-zero terms below tsml.
C1_SumWithoutDroppedSmall ==
    CallChecked =>
        Value(scl, sumsq) =
            SumTerms(LastTerms, 1,
                     ~(\E i \in 1..Len(LastTerms) : IsBigTerm(LastTerms[i])))

C1_Witness ==
    /\ CallChecked
    /\ nread = 3
    /\ \E i \in 1..Len(x) : IsBigTerm(LastTerms[i])
    /\ \E i \in 1..Len(x) : IsSmallTerm(LastTerms[i])
    /\ \E i \in 1..Len(x) : IsMedTerm(LastTerms[i]) /\ ~Eq(LastTerms[i], zero)
    /\ Value(scl, sumsq) # SumTerms(LastTerms, 1, TRUE)

\* C2: once a call has processed an element of NaN magnitude, sumsq is NaN
\* and so is scl * sqrt(sumsq), also after further calls on finite vectors.
C2_NaNPoisoning ==
    nanSeen => isnan(sumsq) /\ isnan(Reconstruct(scl, sumsq))

C2_Witness ==
    /\ nanSeen
    /\ ncalls >= 2
    /\ x # <<>> /\ Finite(x)
    /\ isnan(Reconstruct(scl, sumsq))

\* C3: a call entered with scl or sumsq NaN returns both exactly as they
\* were and reads no element of x.
C3_NaNEntryUnchanged ==
    (ncalls > 0 /\ (isnan(scl_in) \/ isnan(sumsq_in))) =>
        (scl = scl_in /\ sumsq = sumsq_in /\ nread = 0)

C3_Witness ==
    /\ ncalls > 0
    /\ isnan(scl_in) /\ sumsq_in = zero
    /\ x # <<>>
    /\ scl = scl_in /\ sumsq = zero

TwoChunks == ncalls = 2 /\ Admissible(start.scl, start.sumsq) /\ Finite(xs)

OneCall == lassq(xs, start.scl, start.sumsq, "abs")

AllTerms == Terms(xs, start.scl, start.sumsq)

MediumOnly ==
    /\ ncalls > 0
    /\ ~isnan(scl_in) /\ ~isnan(sumsq_in)
    /\ \A i \in 1..Len(LastTerms) :
          IsMedTerm(LastTerms[i]) \/ Eq(LastTerms[i], zero)

MediumResult ==
    LET s == Normalize(scl_in, sumsq_in)
    IN  /\ scl = one
        /\ sumsq = SumTerms(Terms(x, s.scl, s.sumsq), 1, TRUE)

\* C5 as stated: with every magnitude zero or in [tsml, tbig], lassq returns
\* scale = 1 and sumsq = sum |x_i|^2 + scl_norm^2 * sumsq_norm.
C5_MediumOnly == MediumOnly => MediumResult

\* C5 amended: the same for a vector of n >= 1 elements; from (0, 1) with
\* x = [3, 4] the result is (1, 25), whose reconstruction is 5.
C5_MediumOnlyNonEmpty ==
    /\ (MediumOnly /\ Len(x) >= 1) => MediumResult
    /\ (ncalls = 1 /\ start = [scl |-> zero, sumsq |-> one]
            /\ x = <<R(3, 1), R(4, 1)>>) =>
          (scl = one /\ sumsq = Q(25, 1) /\ Reconstruct(scl, sumsq) = Q(5, 1))

C5_Witness ==
    /\ ncalls = 1
    /\ start = [scl |-> zero, sumsq |-> one]
    /\ x = <<R(3, 1), R(4, 1)>>
    /\ scl = one /\ sumsq = Q(25, 1)

(***************************************************************************)
(* What a norm is measured against                                         *)
(***************************************************************************)
InTriangle(u, p) == IF u = "Upper" THEN p[1] <= p[2] ELSE p[1] >= p[2]

Referenced == { p \in Pos(n) : InTriangle(uplo, p) }

\* |Re A(j,j)| on the diagonal, |A(i,j)| elsewhere
RefMagnitude(M, p) == IF p[1] = p[2] THEN rabs(M[p].re) ELSE abs(M[p])

NaNFree == \A p \in Pos(n) : ~isnan(A[p].re) /\ ~isnan(A[p].im)

RECURSIVE SumOver(_, _)
\* the sum of g[p] over the finite set S
SumOver(g, S) ==
    IF S = {} THEN zero
    ELSE LET p == CHOOSE q \in S : TRUE
         IN  Add(g[p], SumOver(g, S \ {p}))

\* sum |Re A(j,j)|^2 + 2 * sum over the strict triangle of |A(i,j)|^2
FroSquared ==
    SumOver([p \in Referenced |->
                IF p[1] = p[2] THEN SQUARE(RefMagnitude(A, p))
                ELSE Mul(two, SQUARE(RefMagnitude(A, p)))],
            Referenced)

FroChecked ==
    /\ pc = "returned" /\ overload = "plain" /\ normType = "frob"
    /\ n >= 1 /\ NaNFree

NoSmallEntry ==
    \A p \in Referenced : ~IsSmallTerm(SQUARE(RefMagnitude(A, p)))

MaxChecked == pc = "returned" /\ overload = "plain" /\ normType = "max"

\* C7: for a NaN-free view of order n >= 1 the Max norm is the largest
\* magnitude of the referenced triangle, the diagonal counted by its real
\* part, and it is >= 0, for either triangle.
C7_MaxNorm ==
    (MaxChecked /\ n >= 1 /\ NaNFree) =>
        /\ \E p \in Referenced : norm = RefMagnitude(A, p)
        /\ \A p \in Referenced : ~Gt(RefMagnitude(A, p), norm)
        /\ ~Lt(norm, zero)

C7_Witness ==
    /\ MaxChecked /\ n >= 1 /\ NaNFree
    /\ \E j \in 1..n : Gt(abs(A[<<j, j>>]), norm)
    /\ uplo = "Lower"

\* p is visited before q: column by column, rows in increasing order
Before(p, q) == p[2] < q[2] \/ (p[2] = q[2] /\ p[1] < q[1])

NaNEntries == { p \in Referenced : isnan(RefMagnitude(A, p)) }

FirstNaN == CHOOSE p \in NaNEntries : \A q \in NaNEntries : ~Before(q, p)

\* C8: the Max-norm traversal visits the referenced triangle column by
\* column and stops at the first NaN magnitude: the result is NaN and the
\* entries read are exactly those up to and including that one, in order.
C8_MaxStopsAtFirstNaN ==
    MaxChecked =>
        /\ \A k \in 1..(Len(reads) - 1) : Before(reads[k], reads[k + 1])
        /\ IF NaNEntries = {}
           THEN { reads[k] : k \in 1..Len(reads) } = Referenced
           ELSE /\ isnan(norm)
                /\ { reads[k] : k \in 1..Len(reads) } =
                       { q \in Referenced : q = FirstNaN \/ Before(q, FirstNaN) }

C8_Witness ==
    /\ MaxChecked
    /\ isnan(norm)
    /\ \E q \in Referenced : Before(FirstNaN, q)
    /\ \E k \in 1..Len(reads) : Gt(RefMagnitude(A, reads[k]), zero)
    /\ reads[Len(reads)] = FirstNaN

\* |H(i,j)| of the Hermitian matrix H implied by triangle u of M
HermMagnitude(M, u, p) ==
    IF InTriangle(u, p) THEN RefMagnitude(M, p)
    ELSE RefMagnitude(M, <<p[2], p[1]>>)

ColumnSum(M, u, j) ==
    SumOver([p \in Pos(n) |-> HermMagnitude(M, u, p)],
            { p \in Pos(n) : p[2] = j })

ConjTranspose(M) ==
    [p \in Pos(n) |-> C(M[<<p[2], p[1]>>].re,
                        Mul(Q(-1, 1), M[<<p[2], p[1]>>].im))]

Other(u) == IF u = "Upper" THEN "Lower" ELSE "Upper"

OneChecked ==
    /\ pc = "returned" /\ overload = "work" /\ normType \in {"one", "inf"}
    /\ n >= 1 /\ NaNFree

\* C9: for a NaN-free view of order n >= 1 the workspace lanhe with
\* one_norm or inf_norm returns the largest column sum of the implied
\* Hermitian matrix, the same for both norms, and the same for the other
\* triangle of the mirror image.
C9_OneInfNorm ==
    OneChecked =>
        /\ \E j \in 1..n : norm = ColumnSum(A, uplo, j)
        /\ \A j \in 1..n : ~Gt(ColumnSum(A, uplo, j), norm)
        /\ norm = lanheW(normType, Other(uplo), ConjTranspose(A), n,
                         work_in).ret.norm

C9_Witness ==
    /\ OneChecked
    /\ n = 3 /\ uplo = "Upper" /\ normType = "inf"
    /\ norm = Q(8, 1)
    /\ \A p \in Pos(n) : ~Gt(RefMagnitude(A, p), Q(5, 1))

Scrub(M, u) ==
    [p \in Pos(n) |-> IF InTriangle(u, p) THEN M[p] ELSE C(NaN, NaN)]

\* the call that was made, repeated on the view M
Repeated(M) ==
    IF overload = "plain"
    THEN [norm |-> lanhe(normType, uplo, M, n).norm, work |-> work_in]
    ELSE [norm |-> lanheW(normType, uplo, M, n, work_in).ret.norm,
          work |-> lanheW(normType, uplo, M, n, work_in).w.buf]

HermChecked ==
    /\ pc = "returned"
    /\ overload = "plain" \/ normType \in {"one", "inf"}

\* C11: lanhe reads no entry strictly inside the triangle opposite to uplo,
\* and its result is the one it gives when that triangle is filled with NaN;
\* so two views that agree on the referenced triangle give the same result.
C11_OtherTriangleUnread ==
    HermChecked =>
        /\ \A k \in 1..Len(reads) : reads[k] \in Referenced
        /\ Repeated(Scrub(A, uplo)) = [norm |-> norm, work |-> work]

C11_Witness ==
    /\ HermChecked /\ normType = "frob" /\ n = 3
    /\ \E p \in Pos(n) \ Referenced : isnan(A[p].re)
    /\ \E p \in Referenced : p[1] # p[2] /\ Gt(abs(A[p]), zero)
    /\ ~isnan(norm) /\ Gt(norm, zero)

(***************************************************************************)
(* What a view is measured against                                         *)
(***************************************************************************)
\* C12: transposing a column-major or row-major view twice gives back its
\* layout, extents (m, n), buffer pointer and leading dimension.
C12_TransposeInvolution ==
    view.layout # "none" =>
        /\ transpose(transpose(view)) = view
        /\ ntrans % 2 = 0 =>
              /\ view.layout = view0.layout
              /\ view.m = view0.m /\ view.n = view0.n
              /\ view.ptr = view0.ptr /\ view.ldim = view0.ldim

C12_Witness ==
    /\ ntrans = 2
    /\ view0 = colmajor_matrix(1, 2, 1, 3)
    /\ view = view0

Swapped(layout) == IF layout = "ColMajor" THEN "RowMajor" ELSE "ColMajor"

\* T is V seen transposed: the other layout, extents exchanged, the same
\* pointer and leading dimension, element (j, i) where V has element (i, j)
TransposedOf(V, T) ==
    /\ T.layout = Swapped(V.layout)
    /\ T.m = V.n /\ T.n = V.m
    /\ T.ptr = V.ptr /\ T.ldim = V.ldim
    /\ \A i \in 0..(V.m - 1), j \in 0..(V.n - 1) :
          Offset(T, j, i) = Offset(V, i, j)

\* C13: transpose of an m-by-n column-major view is an n-by-m row-major
\* view, and the reverse, over the same pointer and leading dimension;
\* element (j, i) of the result is at the offset of element (i, j) of the
\* original, and memory is left as it was.
C13_TransposeReinterprets ==
    [][Transpose => (TransposedOf(view, view') /\ mem' = mem)]_vars

C13_Witness ==
    /\ ntrans = 1 /\ nstores = 1
    /\ view0 = colmajor_matrix(1, 2, 2, 3)
    /\ view.layout = "RowMajor"
    /\ mem[view.ptr + Offset(view, 1, 0)] = 1
    /\ Offset(view, 1, 0) = 3

(***************************************************************************)
(* What the legacy swap is measured against                                *)
(***************************************************************************)
\* where logical element i of an n-element vector with stride inc lies
ElementAt(i, len, inc) ==
    IF inc > 0 THEN i * inc ELSE (len - 1 - i) * IAbsInc(inc)

\* C14: in swap(n, x, incx, y, incy) with n >= 1 and non-zero increments,
\* logical element i of x is at offset i*incx for incx > 0 and at offset
\* (n-1-i)*|incx| for incx < 0, likewise for y, and every offset accessed
\* lies in [0, (n-1)*|inc|], the base offset being computed in idx_t.
C14_SwapOffsets ==
    (swPc = "returned" /\ swN >= 1) =>
        /\ swAccX = { ElementAt(i, swN, swIncx) : i \in 0..(swN - 1) }
        /\ swAccY = { ElementAt(i, swN, swIncy) : i \in 0..(swN - 1) }
        /\ \A o \in swAccX : 0 <= o /\ o <= (swN - 1) * IAbsInc(swIncx)
        /\ \A o \in swAccY : 0 <= o /\ o <= (swN - 1) * IAbsInc(swIncy)
        /\ \A i \in 0..(swN - 1) :
              /\ swX[ElementAt(i, swN, swIncx)] =
                     swY0[ElementAt(i, swN, swIncy)]
              /\ swY[ElementAt(i, swN, swIncy)] =
                     swX0[ElementAt(i, swN, swIncx)]
        /\ \A o \in DOMAIN swX \ swAccX : swX[o] = swX0[o]
        /\ \A o \in DOMAIN swY \ swAccY : swY[o] = swY0[o]

C14_Witness ==
    /\ swPc = "returned"
    /\ swN = 3 /\ swIncx = -2 /\ swIncy = 1
    /\ swX[4] = <<"y", 0>> /\ swX[0] = <<"y", 2>> /\ swX[1] = <<"x", 1>>
    /\ swY[0] = <<"x", 4>>

(***************************************************************************)
(* What lascl is measured against                                          *)
(***************************************************************************)
ValidBandArguments ==
    /\ lsType \in {"LowerBand", "UpperBand", "Band"}
    /\ 0 <= lsKl /\ lsKl <= IMax(lsM - 1, 0)
    /\ 0 <= lsKu /\ lsKu <= IMax(lsN - 1, 0)
    /\ lsType \in {"LowerBand", "UpperBand"} => lsKl = lsKu
    /\ lsLda >= 2 * lsKl + lsKu + 1

\* C15: called with a band matrix type and valid arguments, lascl reports
\* no invalid argument and dispatches to the band scaling routine of that
\* type.
C15_BandTypesAccepted ==
    (lsPc = "returned" /\ ValidBandArguments) =>
        /\ lsInfo >= 0
        /\ lsRoutine = Dispatch(lsType)

(***************************************************************************)
(* What potrs is measured against                                          *)
(***************************************************************************)
SolveOrder(ul) ==
    IF ul = "Upper" THEN <<"conjTranspose", "noTranspose">>
    ELSE <<"noTranspose", "conjTranspose">>

\* C16: with A square and nrows(B) = ncols(A), potrs applies exactly two
\* triangular solves to B, U^H then U for the upper triangle and L then L^H
\* for the lower, and returns 0; otherwise it returns -2 or -3 and B has
\* seen no solve.
C16_TwoSolvesInOrder ==
    poPc = "returned" =>
        IF poRowsA # poColsA THEN poInfo = -2 /\ poB = <<>>
        ELSE IF poRowsB # poColsA THEN poInfo = -3 /\ poB = <<>>
        ELSE /\ poInfo = 0
             /\ Len(poB) = 2
             /\ \A k \in 1..2 :
                   /\ poB[k].trans = SolveOrder(poUplo)[k]
                   /\ poB[k].uplo = poUplo
                   /\ poB[k].side = "left_side"
                   /\ poB[k].diag = "nonUnit_diagonal"
                   /\ poB[k].alpha = one

C16_Witness ==
    /\ poPc = "returned" /\ poUplo = "Lower"
    /\ poRowsA = 2 /\ poColsA = 2 /\ poRowsB = 2
    /\ poInfo = 0
    /\ Len(poB) = 2 /\ poB[1].trans = "noTranspose"

(***************************************************************************)
(* What herk is measured against                                           *)
(***************************************************************************)
\* the inner dimension k
HerkInner == IF hkTrans = "NoTrans" THEN hkColsA ELSE hkRowsA

\* term l of (A*A^H)(i,j) for NoTrans and of (A^H*A)(i,j) for ConjTrans
GramTerm(i, j, l) ==
    IF hkTrans = "NoTrans"
    THEN CMul(hkA0[<<i, l>>], conj(hkA0[<<j, l>>]))
    ELSE CMul(conj(hkA0[<<l, i>>]), hkA0[<<l, j>>])

RECURSIVE Gram(_, _, _)
\* the sum of the terms l .. k
Gram(i, j, l) ==
    IF l > HerkInner THEN C(zero, zero)
    ELSE CAdd(GramTerm(i, j, l), Gram(i, j, l + 1))

\* alpha*G(i,j) + beta*C_in(i,j), the diagonal from real(C_in(j,j)) only
Updated(p) ==
    IF p[1] = p[2]
    THEN FromReal(Add(Mul(hkAlpha, Gram(p[1], p[2], 1).re),
                      Mul(hkBeta, hkC0[p].re)))
    ELSE CAdd(RTimes(hkAlpha, Gram(p[1], p[2], 1)), RTimes(hkBeta, hkC0[p]))

HerkReferenced ==
    { p \in RPos(hkOrdC, hkOrdC) :
        IF hkUplo = "Lower" THEN p[1] >= p[2] ELSE p[1] <= p[2] }

\* C17: for uplo Upper or Lower, after herk every entry of the referenced
\* triangle of C is alpha*(A*A^H)(i,j) + beta*C_in(i,j) for NoTrans and
\* alpha*(A^H*A)(i,j) + beta*C_in(i,j) for ConjTrans; a diagonal entry is
\* computed from the real part of C_in(j,j) and has zero imaginary part.
C17_HerkUpdate ==
    (hkPc = "returned" /\ hkUplo \in {"Upper", "Lower"}) =>
        /\ \A p \in HerkReferenced : hkC[p] = Updated(p)
        /\ \A j \in 1..hkOrdC : hkC[<<j, j>>].im = zero

C17_Witness ==
    /\ hkPc = "returned" /\ hkUplo = "Lower" /\ hkTrans = "ConjTrans"
    /\ hkRowsA = 2 /\ hkColsA = 2
    /\ \A p \in RPos(2, 2) : hkA0[p].re # zero /\ hkA0[p].im # zero
    /\ hkAlpha = Q(-2, 1) /\ hkBeta = Q(3, 1)
    /\ hkC[<<2, 1>>] # RTimes(hkBeta, hkC0[<<2, 1>>])
    /\ hkC[<<2, 1>>].im # zero

\* C18: herk leaves A as it was; with uplo Upper the entries strictly below
\* the diagonal of C are unchanged, with uplo Lower those strictly above;
\* with uplo General the strictly lower triangle is the conjugate of the
\* updated upper triangle and C is Hermitian on exit.
C18_HerkFrame ==
    hkPc = "returned" =>
        /\ hkA = hkA0
        /\ hkUplo = "Upper" =>
              \A p \in RPos(hkOrdC, hkOrdC) : p[1] > p[2] => hkC[p] = hkC0[p]
        /\ hkUplo = "Lower" =>
              \A p \in RPos(hkOrdC, hkOrdC) : p[1] < p[2] => hkC[p] = hkC0[p]
        /\ hkUplo = "General" =>
              /\ \A p \in HerkReferenced : hkC[p] = Updated(p)
              /\ \A p \in RPos(hkOrdC, hkOrdC) :
                    hkC[p] = conj(hkC[<<p[2], p[1]>>])

C18_Witness ==
    /\ hkPc = "returned" /\ hkUplo = "General" /\ hkTrans = "NoTrans"
    /\ hkOrdC = 2 /\ hkColsA = 2
    /\ hkC[<<2, 1>>] # hkC0[<<2, 1>>]
    /\ hkC[<<2, 1>>].im # zero
    /\ hkC[<<1, 2>>] # hkC[<<2, 1>>]

(***************************************************************************)
(* What a call is measured against: normalization and the big bucket       *)
(***************************************************************************)
\* C19: called on an empty vector with a non-NaN state, lassq returns
\* (1, 0) when sumsq_in = 0 or scale_in = 0 and the state unchanged
\* otherwise; the scale returned from a non-NaN state is never 0.
C19_EntryNormalization ==
    (ncalls > 0 /\ ~isnan(scl_in) /\ ~isnan(sumsq_in)) =>
        /\ ~Eq(scl, zero)
        /\ x = <<>> =>
              IF Eq(sumsq_in, zero) \/ Eq(scl_in, zero)
              THEN scl = one /\ sumsq = zero
              ELSE scl = scl_in /\ sumsq = sumsq_in

C19_Witness ==
    /\ ncalls > 0 /\ x = <<>>
    /\ scl_in = zero /\ sumsq_in = one
    /\ scl = one /\ sumsq = zero

\* the magnitudes a call classifies: the |x_i| and, when the normalized
\* sumsq_in is positive, the incoming value scl_in*sqrt(sumsq_in)
Magnitudes ==
    [i \in 1..(Len(x) + 1) |->
        IF i <= Len(x) THEN abs(x[i])
        ELSE IF Gt(sumsq_in, zero) /\ ~Eq(scl_in, zero)
        THEN Mul(scl_in, sqrt(sumsq_in))
        ELSE zero]

RECURSIVE BigSum(_, _)
\* sum over the big terms of (a*sbig)^2 + sbig^2 * sum over the medium
\* terms of a^2; a term below tsml counts for nothing
BigSum(m, i) ==
    IF i > Len(m) THEN zero
    ELSE Add(IF Gt(m[i], tbig) THEN SQUARE(Mul(m[i], sbig))
             ELSE IF Lt(m[i], tsml) THEN zero
             ELSE Mul(SQUARE(sbig), SQUARE(m[i])),
             BigSum(m, i + 1))

SomeBig == \E i \in 1..(Len(x) + 1) : Gt(Magnitudes[i], tbig)

BigChecked ==
    ncalls > 0 /\ ~isnan(scl_in) /\ ~isnan(sumsq_in) /\ SomeBig

\* C20 as stated: when an element magnitude or the incoming value exceeds
\* tbig, lassq returns scale = 1/sbig and sumsq = sum over big terms of
\* (a*sbig)^2 + sbig^2 * sum over medium terms of a^2, without the small
\* terms.
C20_BigDominates ==
    BigChecked =>
        /\ scl = Div(one, sbig)
        /\ sumsq = BigSum(Magnitudes, 1)

\* C20 amended: the same for a vector of n >= 1 elements.
C20_BigDominatesNonEmpty ==
    (BigChecked /\ Len(x) >= 1) =>
        /\ scl = Div(one, sbig)
        /\ sumsq = BigSum(Magnitudes, 1)

C20_Witness ==
    /\ BigChecked /\ Len(x) = 3
    /\ Lt(abs(x[1]), tsml) /\ Gt(abs(x[1]), zero)
    /\ Gt(abs(x[2]), tbig)
    /\ Lt(abs(x[3]), tsml) /\ Gt(abs(x[3]), zero)
    /\ scl_in = one /\ sumsq_in = Q(9, 1)
    /\ sumsq = Add(Q(25, 256), Q(9, 256))

(***************************************************************************)
(* The small bucket                                                        *)
(***************************************************************************)
\* a term that makes the small accumulator positive
SomeSmall ==
    \E i \in 1..(Len(x) + 1) :
        Lt(Magnitudes[i], tsml) /\ Gt(Magnitudes[i], zero)

\* a term that makes the medium accumulator positive or NaN
SomeMedium ==
    \E i \in 1..(Len(x) + 1) :
        /\ ~Gt(Magnitudes[i], tbig)
        /\ ~Lt(Magnitudes[i], tsml)

RECURSIVE SquareSum(_, _, _)
\* sum over the terms of (a*by)^2
SquareSum(m, i, by) ==
    IF i > Len(m) THEN zero
    ELSE Add(SQUARE(Mul(m[i], by)), SquareSum(m, i + 1, by))

SmallChecked ==
    /\ ncalls > 0 /\ ~isnan(scl_in) /\ ~isnan(sumsq_in)
    /\ Len(x) >= 1 /\ ~SomeBig /\ SomeSmall

\* C21 as stated: whenever the big bucket is empty and the small bucket is
\* not, lassq reports scale = 1 and sumsq = (sum over small terms of a^2)
\* + (sum over medium terms of a^2).
C21_SmallMerge ==
    SmallChecked =>
        /\ scl = one
        /\ sumsq = SquareSum(Magnitudes, 1, one)

\* C21 amended: that pair is reported when the medium bucket is non-empty
\* too; with an empty medium bucket lassq reports scale = 1/ssml and
\* sumsq = sum over small terms of (a*ssml)^2.
C21_SmallMergeWithMedium ==
    SmallChecked =>
        IF SomeMedium
        THEN scl = one /\ sumsq = SquareSum(Magnitudes, 1, one)
        ELSE scl = Div(one, ssml) /\ sumsq = SquareSum(Magnitudes, 1, ssml)

C21_Witness ==
    /\ SmallChecked /\ SomeMedium
    /\ x = <<R(1, 8), R(3, 1)>>
    /\ scl_in = Q(1, 8) /\ sumsq_in = one
    /\ scl = one /\ sumsq = Q(289, 32)

(***************************************************************************)
(* The steps of the Frobenius branch                                       *)
(***************************************************************************)
FroCall ==
    pc = "returned" /\ overload = "plain" /\ normType = "frob" /\ n >= 1

\* the (scale, ssq) of the off-diagonal accumulation: the pair left by the
\* last column, or the initial (0, 1) when there is no column
OffDiagonal ==
    IF n = 1 THEN Step("column", zero, one) ELSE events[n - 1]

C23_ScaleState ==
    (ncalls > 0 /\ Admissible(start.scl, start.sumsq) /\ Finite(xs)) =>
        /\ Gt(scl, zero)
        /\ ~isnan(sumsq) /\ ~Lt(sumsq, zero)
        /\ Len(x) >= 1 => scl \in { one, Div(one, sbig), Div(one, ssml) }

C23_Witness ==
    /\ ncalls = 2 /\ start = [scl |-> zero, sumsq |-> one]
    /\ xs = <<R(1, 8), R(1, 8)>> /\ x = <<R(1, 8)>>
    /\ scl = Div(one, ssml) /\ sumsq = two

(***************************************************************************)
(* The order of the elements                                               *)
(***************************************************************************)
\* v with the elements at i and j exchanged
Exchanged(v, i, j) ==
    [k \in 1..Len(v) |-> IF k = i THEN v[j] ELSE IF k = j THEN v[i] ELSE v[k]]

\* C24: for a fixed input state the pair (scale, sumsq) lassq returns is
\* the same for every permutation of the elements of x, a small element
\* met after a big one included: every vector is passed from every input
\* state, and the pair returned is the one returned when any two of its
\* elements are exchanged, exchanges generating the permutations.
C24_OrderIndependent ==
    ncalls > 0 =>
        \A i, j \in 1..Len(x) :
            i < j =>
                LET out == lassq(Exchanged(x, i, j), scl_in, sumsq_in, "abs")
                IN  out.scl = scl /\ out.sumsq = sumsq

C24_Witness ==
    /\ ncalls > 0
    /\ x = <<R(1, 8), C(Q(-3, 1), Q(4, 1)), R(3, 1)>>
    /\ scl_in = zero /\ sumsq_in = one
    /\ scl = Div(one, sbig) /\ sumsq = Q(34, 256)

(***************************************************************************)
(* The scratch buffer                                                      *)
(***************************************************************************)
WorkChecked ==
    /\ pc = "returned" /\ overload = "work" /\ normType \in {"one", "inf"}
    /\ n >= 1

\* the contributions mirrored into work[j]: from the columns after j for
\* the upper triangle, from the columns before j for the lower
MirroredInto(j) ==
    SumOver([p \in Pos(n) |-> HermMagnitude(A, uplo, p)],
            { p \in Pos(n) : /\ p[2] = j
                              /\ IF uplo = "Upper" THEN p[1] > j
                                 ELSE p[1] < j })

\* C25: for n >= 1 the workspace lanhe with one_norm or inf_norm writes
\* work[0..n-1] before reading it, reads no value the caller left in work,
\* writes no entry at index >= n, and returns the same value for every
\* initial content of work; for a NaN-free view, work[j] ends as the
\* column sum (upper) or as the contributions of the earlier columns
\* (lower).
C25_ScratchContentsIrrelevant ==
    WorkChecked =>
        /\ ~winitread
        /\ wwritten = 1..n
        /\ DOMAIN work = DOMAIN work_in
        /\ \A i \in DOMAIN work \ (1..n) : work[i] = work_in[i]
        /\ \A b \in Buffers(n) :
              LET out == lanheW(normType, uplo, A, n, b)
              IN  /\ out.ret.norm = norm
                  /\ \A i \in 1..n : out.w.buf[i] = work[i]
        /\ NaNFree =>
              \A j \in 1..n :
                  work[j] = IF uplo = "Upper" THEN ColumnSum(A, uplo, j)
                            ELSE MirroredInto(j)

C25_Witness ==
    /\ WorkChecked /\ NaNFree /\ n = 3 /\ uplo = "Upper"
    /\ Len(work_in) = 4 /\ work[4] = Q(7, 1)
    /\ Gt(MirroredInto(1), zero)
    /\ norm = work[1]
    /\ \A j \in 1..n : ~Eq(work[j], Q(7, 1))

(***************************************************************************)
(* The quick redirect of the workspace variant                             *)
(***************************************************************************)
Redirected ==
    pc = "returned" /\ overload = "work" /\ normType \in {"max", "frob"}

====
